---------------------------- MODULE Spec2Model ----------------------------
(***************************************************************************)
(* Automated Taskmaster: the monster query engine (catalog loader,         *)
(* CR conversion, find_monsters), the request model's validation, the      *)
(* static-allowlist gate of the backend and the IP authorizer Lambda.      *)
(*                                                                         *)
(* Text is a sequence of one-character strings, so that split, strip,      *)
(* lower and substring search are computed character by character.         *)
(* Numbers are exact fractions [n, d] in lowest terms with d > 0; a float  *)
(* NaN is the separate value NaN.  A dict is a record whose DOMAIN is its  *)
(* keys.  Python's None is written None where a text may stand (a          *)
(* one-element sequence no text over the modelled alphabets equals) and    *)
(* Null where a number or an object may stand (a record of kind "none").   *)
(***************************************************************************)
EXTENDS Integers, Sequences, FiniteSets, TLC

\* ------------------------------------------------------------------ bounds

\* Longest catalog (number of records in the data file).
MaxCatalog == 2

\* Longest ALLOWED_IPS environment string, in characters.
MaxEnvLen == 3

\* Reads of the data file the first implementation may make (it reads again
\* on every call while its catalog is empty).
MaxReads == 3

\* Longest rating text drawn from CrChars.
MaxCrLen == 3

\* ------------------------------------------------------- Python data values

None == <<"<None>">>

Null == [k |-> "none"]

\* Python truthiness of an optional text: None and "" are falsy.
Falsy(v) == v = None \/ v = <<>>

RECURSIVE Gcd(_, _)
Gcd(a, b) == IF b = 0 THEN a ELSE Gcd(b, a % b)

Abs(x) == IF x < 0 THEN -x ELSE x

\* The number n/d (d # 0) in lowest terms with a positive denominator.
Num(n, d) ==
    LET g == Gcd(Abs(n), Abs(d))
        s == IF d < 0 THEN -1 ELSE 1
    IN  [k |-> "num", n |-> (s * n) \div g, d |-> (s * d) \div g]

NaN == [k |-> "nan"]

IsNum(v) == v.k = "num"

\* Python's < > <= >= on floats: every comparison with NaN is False.
Lt(a, b) == IsNum(a) /\ IsNum(b) /\ a.n * b.d < b.n * a.d

Gt(a, b) == Lt(b, a)

Ge(a, b) == IsNum(a) /\ IsNum(b) /\ a.n * b.d >= b.n * a.d

Le(a, b) == Ge(b, a)

\* ------------------------------------------------------------------- text

LowerChar(c) ==
    CASE c = "A" -> "a"
      [] c = "C" -> "c"
      [] c = "F" -> "f"
      [] c = "N" -> "n"
      [] c = "O" -> "o"
      [] OTHER -> c

\* str.lower()
Lower(s) == [i \in 1..Len(s) |-> LowerChar(s[i])]

\* a in b, for two texts: a is a contiguous substring of b.
Contains(a, b) ==
    \E i \in 0..(Len(b) - Len(a)) : SubSeq(b, i + 1, i + Len(a)) = a

IsSpace(c) == c = " "

\* str.strip(): leading and trailing whitespace removed.
RECURSIVE LStrip(_)
LStrip(s) ==
    IF s # <<>> /\ IsSpace(Head(s)) THEN LStrip(Tail(s)) ELSE s

RECURSIVE RStrip(_)
RStrip(s) ==
    IF s # <<>> /\ IsSpace(s[Len(s)]) THEN RStrip(SubSeq(s, 1, Len(s) - 1)) ELSE s

Strip(s) == RStrip(LStrip(s))

\* str.split(sep) for a one-character separator: always at least one piece.
RECURSIVE Split(_, _)
Split(s, sep) ==
    IF \A i \in 1..Len(s) : s[i] # sep
    THEN <<s>>
    ELSE LET i == CHOOSE j \in 1..Len(s) :
                      s[j] = sep /\ \A h \in 1..(j - 1) : s[h] # sep
         IN  <<SubSeq(s, 1, i - 1)>> \o Split(SubSeq(s, i + 1, Len(s)), sep)

\* dict.get(key, default); a dict is a record whose DOMAIN is its keys.
Get(dict, key, default) == IF key \in DOMAIN dict THEN dict[key] ELSE default

\* ------------------------------------------------------- float(str) parsing

Digits == {"0", "1", "2", "3", "4", "5", "6", "7", "8", "9"}

DigitVal(c) ==
    CASE c = "0" -> 0 [] c = "1" -> 1 [] c = "2" -> 2 [] c = "3" -> 3
      [] c = "4" -> 4 [] c = "5" -> 5 [] c = "6" -> 6 [] c = "7" -> 7
      [] c = "8" -> 8 [] c = "9" -> 9

AllDigits(s) == \A i \in 1..Len(s) : s[i] \in Digits

RECURSIVE DecVal(_)
DecVal(s) ==
    IF s = <<>> THEN 0 ELSE 10 * DecVal(SubSeq(s, 1, Len(s) - 1)) + DigitVal(s[Len(s)])

RECURSIVE Pow10(_)
Pow10(k) == IF k = 0 THEN 1 ELSE 10 * Pow10(k - 1)

ValueError == [k |-> "ValueError"]

ZeroDivisionError == [k |-> "ZeroDivisionError"]

\* An unsigned float literal: digits with at most one ".", and at least one
\* digit; or "nan" in any case.
ParseUnsigned(t) ==
    LET parts == Split(t, ".")
    IN  IF Lower(t) = <<"n", "a", "n">> THEN NaN
        ELSE IF Len(parts) = 1 /\ t # <<>> /\ AllDigits(t) THEN Num(DecVal(t), 1)
        ELSE IF /\ Len(parts) = 2
                /\ AllDigits(parts[1]) /\ AllDigits(parts[2])
                /\ Len(parts[1]) + Len(parts[2]) > 0
             THEN Num(DecVal(parts[1]) * Pow10(Len(parts[2])) + DecVal(parts[2]),
                      Pow10(Len(parts[2])))
        ELSE ValueError

Negate(v) == IF IsNum(v) THEN Num(-v.n, v.d) ELSE v

\* Python's float(text) on the characters FloatChars: surrounding whitespace
\* is ignored, one leading sign is allowed, anything else is a ValueError.
FloatChars == Digits \cup {".", "-", "+", " ", "/", "n", "a", "N", "A", "x"}

ParseFloat(s) ==
    LET t == Strip(s)
    IN  IF t # <<>> /\ Head(t) = "-" THEN Negate(ParseUnsigned(Tail(t)))
        ELSE IF t # <<>> /\ Head(t) = "+" THEN ParseUnsigned(Tail(t))
        ELSE ParseUnsigned(t)

\* float division num / den.
FloatDiv(num, den) ==
    IF IsNum(den) /\ den.n = 0 THEN ZeroDivisionError
    ELSE IF num = NaN \/ den = NaN THEN NaN
    ELSE Num(num.n * den.d, num.d * den.n)

\* --------------------------------------------------- models/monster.py

\* Field(..., ge=0) of cr_min and cr_max.
CrGe == 0

\* Field(10, ge=1, le=50) of limit.
LimitDefault == 10

LimitGe == 1

LimitLe == 50

\* One Optional[float] bound: None, or a number >= 0.
ValidCrBound(v) == v = Null \/ (IsNum(v) /\ Ge(v, Num(CrGe, 1)))

ValidLimit_NoUpper(v) == IsNum(v) /\ v.d = 1 /\ v.n >= LimitGe

\* The int field limit: an integer-valued number in [1, 50].
ValidLimit(v) == IsNum(v) /\ v.d = 1 /\ v.n >= LimitGe /\ v.n <= LimitLe

\* MonsterSummonRequest(**body): the fields in error, empty when the body
\* validates.
RequestErrors(body) ==
    {f \in {"cr_min", "cr_max"} : ~ValidCrBound(Get(body, f, Null))}
        \cup (IF ValidLimit(Get(body, "limit", Num(LimitDefault, 1))) THEN {} ELSE {"limit"})

\* The validated request model, defaults applied.
MonsterSummonRequest(body) ==
    [cr_min |-> Get(body, "cr_min", Null),
     cr_max |-> Get(body, "cr_max", Null),
     environment |-> Get(body, "environment", None),
     limit |-> Get(body, "limit", Num(LimitDefault, 1)).n]

\* Whether a raw record validates as a Monster: the four required fields,
\* name and source text, cr a number or text, environment a list of text
\* (a record that has the key environment has a list there).
MonsterFields == {"name", "cr", "environment", "source"}

IsMonsterShape(data) ==
    /\ MonsterFields \subseteq DOMAIN data
    /\ data.name # None
    /\ data.cr.k \in {"num", "nan", "str"}
    /\ data.source # None

\* Monster(**data) for a record of that shape: the four fields, others ignored.
Monster(data) == [f \in MonsterFields |-> data[f]]

\* monster.model_dump(mode="json"): the model's fields as a dict.
model_dump(monster) == [f \in MonsterFields |-> monster[f]]

\* ------------------------------------- helpers/monster_summoner.py: CR

Sentinel_Zero == Num(0, 1)

\* return -1
Sentinel == Num(-1, 1)

ConvertCrText_Inverted(s) ==
    IF Contains(<<"/">>, s)
    THEN LET parts == Split(s, "/")
             floats == [i \in 1..Len(parts) |-> ParseFloat(parts[i])]
         IN  IF Len(parts) # 2 \/ \E i \in 1..Len(parts) : floats[i] = ValueError
             THEN Sentinel
             ELSE FloatDiv(floats[2], floats[1])
    ELSE LET f == ParseFloat(s)
         IN  IF f = ValueError THEN Sentinel ELSE f

\* The string branch: a "/" makes it a fraction of exactly two floats, any
\* ValueError gives -1, and a zero denominator raises ZeroDivisionError.
ConvertCrText(s) ==
    IF Contains(<<"/">>, s)
    THEN LET parts == Split(s, "/")
             floats == [i \in 1..Len(parts) |-> ParseFloat(parts[i])]
         IN  IF Len(parts) # 2 \/ \E i \in 1..Len(parts) : floats[i] = ValueError
             THEN Sentinel
             ELSE FloatDiv(floats[1], floats[2])
    ELSE LET f == ParseFloat(s)
         IN  IF f = ValueError THEN Sentinel ELSE f

_convert_cr_to_float(cr) ==
    IF cr.k \in {"num", "nan"} THEN cr
    ELSE IF cr.k = "str" THEN ConvertCrText(cr.s)
    ELSE Sentinel

\* ------------------------------------------------------------------ state

VARIABLES
    dataFile,            \* data/monsters.json: missing, invalid JSON, or a list of records
    _MONSTERS_CACHE,     \* helpers/monster_summoner.py: the module global
    lru,                 \* the lru_cache(maxsize=1) entry of load_monsters_cached
    fileReads,           \* times load_monsters_cached opened the data file
    _MONSTERS,           \* monster_summoner.py (first implementation): the module global
    legacyReads,         \* times _load_monsters opened the data file
    ALLOWED_IPS_STR,     \* utils.py: os.environ ALLOWED_IPS
    ALLOWED_IPS,         \* utils.py: the parsed allowlist
    ALLOWED_DOCS_IPS_STR,\* handler.py: os.environ ALLOWED_DOCS_IPS
    ALLOWED_DOCS_IPS,    \* handler.py: the parsed allowlist
    HOME_IP_SSM_PARAMETER_NAME, \* ip_authorizer/utils.py: the configured parameter name
    ssmParameter,        \* the parameter store: the value held under that name
    last                 \* the most recent invocation: its input and its outcome

vars == <<dataFile, _MONSTERS_CACHE, lru, fileReads, _MONSTERS, legacyReads,
          ALLOWED_IPS_STR, ALLOWED_IPS, ALLOWED_DOCS_IPS_STR, ALLOWED_DOCS_IPS,
          HOME_IP_SSM_PARAMETER_NAME, ssmParameter, last>>

catalogVars == <<_MONSTERS_CACHE, lru, fileReads>>

legacyVars == <<_MONSTERS, legacyReads>>

configVars == <<dataFile, ALLOWED_IPS_STR, ALLOWED_IPS, ALLOWED_DOCS_IPS_STR,
                ALLOWED_DOCS_IPS, HOME_IP_SSM_PARAMETER_NAME>>

\* ------------------------------ helpers/monster_summoner.py: the loader

\* The try block of load_monsters_cached: the file's records as Monster
\* models; a missing file, invalid JSON or a record that fails the Monster
\* shape each end in an except clause that leaves the cache [].
LoadedMonsters(file) ==
    IF file.k = "json" /\ \A i \in 1..Len(file.data) : IsMonsterShape(file.data[i])
    THEN [i \in 1..Len(file.data) |-> Monster(file.data[i])]
    ELSE <<>>

\* The body of load_monsters_cached, run on an lru_cache miss: the global
\* after it (the file is read only if the global is empty).
CacheAfterLoad(cache, file) == IF cache = <<>> THEN LoadedMonsters(file) ELSE cache

\* load_monsters_cached(): the lru_cache entry when there is one, the body
\* otherwise.  The list returned, and the three variables after the call.
load_monsters_cached ==
    IF lru.set
    THEN [value |-> lru.value, cache |-> _MONSTERS_CACHE, lru |-> lru, reads |-> fileReads]
    ELSE LET c == CacheAfterLoad(_MONSTERS_CACHE, dataFile)
         IN  [value |-> c, cache |-> c, lru |-> [set |-> TRUE, value |-> c],
              reads |-> IF _MONSTERS_CACHE = <<>> THEN fileReads + 1 ELSE fileReads]

\* Assignments to the global _MONSTERS_CACHE so far: each run of the body that
\* opens the file ends in exactly one, at line 52 or in an except clause.
CacheWrites == fileReads

\* Assignments to the global _MONSTERS so far: one per _load_monsters() that
\* opens the file, at line 17 or in an except clause; none when it raises.
LegacyWrites == IF dataFile.k = "unreadable" THEN 0 ELSE legacyReads

\* ------------------------- helpers/monster_summoner.py: find_monsters

BelowMin_Exclusive(cr, params) == params.cr_min # Null /\ Le(cr, params.cr_min)

\* if params.cr_min is not None and monster_cr_float < params.cr_min
BelowMin(cr, params) == params.cr_min # Null /\ Lt(cr, params.cr_min)

\* The upper bound taken as exclusive.
AboveMax_Exclusive(cr, params) == params.cr_max # Null /\ Ge(cr, params.cr_max)

AboveMax_RejectsNegative(cr, params) ==
    params.cr_max # Null /\ (Gt(cr, params.cr_max) \/ Lt(cr, Num(0, 1)))

\* if params.cr_max is not None and monster_cr_float > params.cr_max
AboveMax(cr, params) == params.cr_max # Null /\ Gt(cr, params.cr_max)

\* any(params.environment.lower() in env.lower() for env in environments)
EnvMatch(environment, environments) ==
    \E i \in 1..Len(environments) : Contains(Lower(environment), Lower(environments[i]))

EnvMismatch_EmptyIsFilter(data, params) ==
    params.environment # None
        /\ ~EnvMatch(params.environment, Get(data, "environment", <<>>))

\* if params.environment: ... if not env_match: continue
EnvMismatch(data, params) ==
    ~Falsy(params.environment) /\ ~EnvMatch(params.environment, Get(data, "environment", <<>>))

\* The break taken one result late.
LimitReached_Late(results, params) == Len(results) > params.limit

\* if len(results) >= params.limit: break
LimitReached(results, params) == Len(results) >= params.limit

\* The for loop from record i on, with the results so far: the list returned,
\* or the exception that leaves the loop (a ZeroDivisionError of the CR
\* conversion: nothing catches it).
RECURSIVE ScanMonsters(_, _, _, _)
ScanMonsters(monsters, i, results, params) ==
    IF i > Len(monsters) THEN [status |-> "ok", results |-> results]
    ELSE LET monster_data == model_dump(monsters[i])
             monster_cr_float == _convert_cr_to_float(Get(monster_data, "cr", Sentinel))
         IN  IF monster_cr_float = ZeroDivisionError
             THEN [status |-> "raise", results |-> <<>>]
             ELSE IF BelowMin(monster_cr_float, params)
                     \/ AboveMax(monster_cr_float, params)
                     \/ EnvMismatch(monster_data, params)
             THEN ScanMonsters(monsters, i + 1, results, params)
             ELSE IF ~IsMonsterShape(monster_data)
             THEN ScanMonsters(monsters, i + 1, results, params)
             ELSE LET appended == Append(results, Monster(monster_data))
                  IN  IF LimitReached(appended, params)
                      THEN [status |-> "ok", results |-> appended]
                      ELSE ScanMonsters(monsters, i + 1, appended, params)

\* find_monsters(params) on the loaded list.
find_monsters(monsters, params) == ScanMonsters(monsters, 1, <<>>, params)

\* ---------------------- monster_summoner.py: the first implementation

legacy_load_monsters_Rotate(monsters, file) ==
    IF monsters # <<>> THEN Tail(monsters) \o <<Head(monsters)>>
    ELSE IF file.k = "json" THEN file.data
    ELSE <<>>

\* _load_monsters(): the global after it.  The raw records are kept as read;
\* a missing file or invalid JSON leaves [].
legacy_load_monsters(monsters, file) ==
    IF monsters # <<>> THEN monsters
    ELSE IF file.k = "json" THEN file.data
    ELSE <<>>

\* Whether _load_monsters() raises: it catches FileNotFoundError and
\* json.JSONDecodeError only, so any other error of open() or json.load()
\* (PermissionError, UnicodeDecodeError, ...) leaves it.
legacy_load_raises(monsters, file) == monsters = <<>> /\ file.k = "unreadable"

legacy_convert_cr_to_float_NoFractions(cr) ==
    IF cr.k \in {"num", "nan"} THEN cr
    ELSE IF cr.k = "str" /\ ~Contains(<<"/">>, cr.s)
    THEN LET f == ParseFloat(cr.s)
         IN  IF f = ValueError THEN Sentinel ELSE f
    ELSE Sentinel

\* _convert_cr_to_float(cr) of the first implementation.
legacy_convert_cr_to_float(cr) ==
    IF cr.k \in {"num", "nan"} THEN cr
    ELSE IF cr.k = "str"
    THEN IF Contains(<<"/">>, cr.s)
         THEN LET parts == Split(cr.s, "/")
                  floats == [i \in 1..Len(parts) |-> ParseFloat(parts[i])]
              IN  IF Len(parts) # 2 \/ \E i \in 1..Len(parts) : floats[i] = ValueError
                  THEN Sentinel
                  ELSE FloatDiv(floats[1], floats[2])
         ELSE LET f == ParseFloat(cr.s)
              IN  IF f = ValueError THEN Sentinel ELSE f
    ELSE Sentinel

\* The for loop over the raw records.
RECURSIVE LegacyScan(_, _, _, _)
LegacyScan(monsters, i, results, params) ==
    IF i > Len(monsters) THEN [status |-> "ok", results |-> results]
    ELSE LET m_data == monsters[i]
             monster_cr_float == legacy_convert_cr_to_float(Get(m_data, "cr", Sentinel))
         IN  IF monster_cr_float = ZeroDivisionError
             THEN [status |-> "raise", results |-> <<>>]
             ELSE IF \/ (params.cr_min # Null /\ Lt(monster_cr_float, params.cr_min))
                     \/ (params.cr_max # Null /\ Gt(monster_cr_float, params.cr_max))
                     \/ (/\ ~Falsy(params.environment)
                         /\ ~EnvMatch(params.environment, Get(m_data, "environment", <<>>)))
             THEN LegacyScan(monsters, i + 1, results, params)
             ELSE IF ~IsMonsterShape(m_data)
             THEN LegacyScan(monsters, i + 1, results, params)
             ELSE LET appended == Append(results, Monster(m_data))
                  IN  IF Len(appended) >= params.limit
                      THEN [status |-> "ok", results |-> appended]
                      ELSE LegacyScan(monsters, i + 1, appended, params)

legacy_find_monsters_StopAtInvalid(monsters, params) ==
    LET bad == {i \in 1..Len(monsters) : ~IsMonsterShape(monsters[i])}
        n == IF bad = {} THEN Len(monsters)
             ELSE (CHOOSE i \in bad : \A j \in bad : i <= j) - 1
    IN  IF monsters = <<>> THEN [status |-> "ok", results |-> <<>>]
        ELSE LegacyScan(SubSeq(monsters, 1, n), 1, <<>>, params)

\* find_monsters(params) of the first implementation, on the global as it is
\* after the reload attempt.
legacy_find_monsters(monsters, params) ==
    IF monsters = <<>> THEN [status |-> "ok", results |-> <<>>]
    ELSE LegacyScan(monsters, 1, <<>>, params)

\* ------------------------------------------- utils.py: the static gate

Range(seq) == {seq[i] : i \in 1..Len(seq)}

RECURSIVE StripNonEmpty(_)
StripNonEmpty(items) ==
    IF items = <<>> THEN <<>>
    ELSE IF Strip(Head(items)) # <<>>
    THEN <<Strip(Head(items))>> \o StripNonEmpty(Tail(items))
    ELSE StripNonEmpty(Tail(items))

ParseAllowedIps_Unfiltered(str) ==
    LET parts == Split(str, ",") IN [i \in 1..Len(parts) |-> Strip(parts[i])]

\* [ip.strip() for ip in ALLOWED_IPS_STR.split(",") if ip.strip()]
ParseAllowedIps(str) == StripNonEmpty(Split(str, ","))

\* scope["aws.event"].get("requestContext", {}).get("http"), as a condition:
\* the http entry exists and is a non-empty dict.
HasGatewayHttp(scope) ==
    /\ "aws_event" \in DOMAIN scope
    /\ LET http == Get(Get(scope.aws_event, "requestContext", <<>>), "http", <<>>)
       IN  http # <<>>

\* The source_ip the gate resolves.
ResolveSourceIp(request) ==
    IF HasGatewayHttp(request.scope)
    THEN Get(request.scope.aws_event.requestContext.http, "sourceIp", None)
    ELSE IF request.client # Null THEN request.client.host
    ELSE None

DetailDisabled == "Documentation access is disabled."

DetailRestricted == "Access to documentation is restricted."

CheckAllowed_FailOpen(source_ip, allowed) ==
    IF allowed # <<>> /\ source_ip \notin Range(allowed)
    THEN [allowed |-> FALSE, status_code |-> 403, detail |-> DetailRestricted]
    ELSE [allowed |-> TRUE, status_code |-> 200, detail |-> ""]

\* The two checks after the resolution: True, or the HTTPException raised.
CheckAllowed(source_ip, allowed) ==
    IF allowed = <<>> THEN [allowed |-> FALSE, status_code |-> 403, detail |-> DetailDisabled]
    ELSE IF source_ip \notin Range(allowed)
    THEN [allowed |-> FALSE, status_code |-> 403, detail |-> DetailRestricted]
    ELSE [allowed |-> TRUE, status_code |-> 200, detail |-> ""]

verify_client_id_address(request) == CheckAllowed(ResolveSourceIp(request), ALLOWED_IPS)

\* handler.py: the same gate over ALLOWED_DOCS_IPS.
LegacyResolveSourceIp(request) ==
    IF HasGatewayHttp(request.scope)
    THEN Get(request.scope.aws_event.requestContext.http, "sourceIp", None)
    ELSE IF request.client # Null THEN request.client.host
    ELSE None

verify_ip_for_docs(request) ==
    LET source_ip == LegacyResolveSourceIp(request)
    IN  IF ALLOWED_DOCS_IPS = <<>>
        THEN [allowed |-> FALSE, status_code |-> 403, detail |-> DetailDisabled]
        ELSE IF source_ip \notin Range(ALLOWED_DOCS_IPS)
        THEN [allowed |-> FALSE, status_code |-> 403, detail |-> DetailRestricted]
        ELSE [allowed |-> TRUE, status_code |-> 200, detail |-> ""]

\* ------------------------------------------------ at-ip-authorizer

get_allowed_ip_from_ssm_Unguarded(fault, name, parameter) ==
    IF fault # "none" \/ Falsy(parameter) THEN [value |-> None, fetches |-> 1]
    ELSE [value |-> parameter, fetches |-> 1]

get_allowed_ip_from_ssm_Retry(fault, name, parameter) ==
    IF fault = "client" \/ Falsy(name) THEN [value |-> None, fetches |-> 0]
    ELSE IF fault \in {"ClientError", "Exception"}
    THEN [value |-> IF Falsy(parameter) THEN None ELSE parameter, fetches |-> 2]
    ELSE IF fault = "no_value" \/ Falsy(parameter) THEN [value |-> None, fetches |-> 1]
    ELSE [value |-> parameter, fetches |-> 1]

\* get_allowed_ip_from_ssm() under one invocation's conditions: fault names
\* what fails in it ("none", "client": boto3.client raises, "ClientError" or
\* "Exception": get_parameter raises, "no_value": the response has no Value).
\* A parameter the store does not hold makes get_parameter raise ClientError.
\* Returns the value (None for every failure) and the get_parameter calls made.
get_allowed_ip_from_ssm(fault, name, parameter) ==
    IF fault = "client" \/ Falsy(name) THEN [value |-> None, fetches |-> 0]
    ELSE IF fault \in {"ClientError", "Exception"} \/ parameter = None
    THEN [value |-> None, fetches |-> 1]
    ELSE IF fault = "no_value" \/ Falsy(parameter) THEN [value |-> None, fetches |-> 1]
    ELSE [value |-> parameter, fetches |-> 1]

\* event.get("requestContext", {}).get("http", {}).get("sourceIp")
EventSourceIp(event) ==
    Get(Get(Get(event, "requestContext", <<>>), "http", <<>>), "sourceIp", None)

lambda_handler_FailOpen(event, fault, name, parameter) ==
    LET source_ip == EventSourceIp(event)
        ssm == get_allowed_ip_from_ssm(fault, name, parameter)
    IN  IF Falsy(source_ip)
        THEN [isAuthorized |-> FALSE, ssm_calls |-> 0, fetches |-> 0,
              source_ip |-> source_ip, allowed_ip |-> None]
        ELSE [isAuthorized |-> Falsy(ssm.value) \/ source_ip = ssm.value, ssm_calls |-> 1,
              fetches |-> ssm.fetches, source_ip |-> source_ip, allowed_ip |-> ssm.value]

lambda_handler_FetchFirst(event, fault, name, parameter) ==
    LET source_ip == EventSourceIp(event)
        ssm == get_allowed_ip_from_ssm(fault, name, parameter)
    IN  [isAuthorized |-> ~Falsy(source_ip) /\ ~Falsy(ssm.value) /\ source_ip = ssm.value,
         ssm_calls |-> 1, fetches |-> ssm.fetches,
         source_ip |-> source_ip, allowed_ip |-> ssm.value]

\* lambda_handler(event, context): the response, with the calls it made.
lambda_handler(event, fault, name, parameter) ==
    LET source_ip == EventSourceIp(event)
        ssm == get_allowed_ip_from_ssm(fault, name, parameter)
        allowed_ip == ssm.value
    IN  IF Falsy(source_ip)
        THEN [isAuthorized |-> FALSE, ssm_calls |-> 0, fetches |-> 0,
              source_ip |-> source_ip, allowed_ip |-> None]
        ELSE IF Falsy(allowed_ip)
        THEN [isAuthorized |-> FALSE, ssm_calls |-> 1, fetches |-> ssm.fetches,
              source_ip |-> source_ip, allowed_ip |-> allowed_ip]
        ELSE [isAuthorized |-> source_ip = allowed_ip, ssm_calls |-> 1,
              fetches |-> ssm.fetches, source_ip |-> source_ip, allowed_ip |-> allowed_ip]

\* ------------------------------------------------------------- operations

\* A Lambda execution environment runs one invocation at a time: the next
\* starts once the previous one has returned.
Idle == last.op = "none"

\* The invocation's outcome goes back to the caller.
Return ==
    /\ ~Idle
    /\ last' = [op |-> "none"]
    /\ UNCHANGED <<catalogVars, legacyVars, configVars, ssmParameter>>

NoResponse == [k |-> "none"]

MonsterSummonResponse_CountLimit(params, monsters_found) ==
    [k |-> "response", query_parameters |-> params,
     summoned_monsters |-> monsters_found, count |-> params.limit]

\* MonsterSummonResponse(query_parameters, summoned_monsters, count)
MonsterSummonResponse(params, monsters_found) ==
    [k |-> "response", query_parameters |-> params,
     summoned_monsters |-> monsters_found, count |-> Len(monsters_found)]

\* What one POST /summon-monster leaves in last.
SummonOutcome(impl, request, body, gate, status_code, catalog, find_calls, found) ==
    [op |-> "summon", impl |-> impl, request |-> request, body |-> body,
     gate |-> gate, status_code |-> status_code,
     params |-> IF status_code \in {200, 500} THEN MonsterSummonRequest(body) ELSE Null,
     catalog |-> catalog, find_calls |-> find_calls, found |-> found,
     response |-> IF status_code = 200
                  THEN MonsterSummonResponse(MonsterSummonRequest(body), found)
                  ELSE NoResponse]

\* routers/summon.py of automated_taskmaster: the Depends gate, the request
\* model's validation (422), then the endpoint: find_monsters over the cached
\* catalog and the response; an exception out of find_monsters is a 500.
summon_monster_endpoint(request, body) ==
    LET gate == verify_client_id_address(request)
        loaded == load_monsters_cached
        found == find_monsters(loaded.value, MonsterSummonRequest(body))
    IN  /\ Idle
        /\ IF ~gate.allowed
           THEN /\ last' = SummonOutcome("helpers", request, body, gate, gate.status_code,
                                         <<>>, 0, <<>>)
                /\ UNCHANGED <<catalogVars, legacyVars, configVars, ssmParameter>>
           ELSE IF RequestErrors(body) # {}
           THEN /\ last' = SummonOutcome("helpers", request, body, gate, 422, <<>>, 0, <<>>)
                /\ UNCHANGED <<catalogVars, legacyVars, configVars, ssmParameter>>
           ELSE /\ _MONSTERS_CACHE' = loaded.cache
                /\ lru' = loaded.lru
                /\ fileReads' = loaded.reads
                /\ last' = SummonOutcome("helpers", request, body, gate,
                                         IF found.status = "ok" THEN 200 ELSE 500,
                                         loaded.value, 1, found.results)
                /\ UNCHANGED <<legacyVars, configVars, ssmParameter>>

NoGate == [allowed |-> TRUE, status_code |-> 200, detail |-> "no gate"]

\* routers/summon.py of the first implementation: no dependency; validation,
\* then find_monsters, which reloads the global when it is empty.
legacy_summon_monster_endpoint(request, body) ==
    LET monsters == legacy_load_monsters(_MONSTERS, dataFile)
        found == legacy_find_monsters(monsters, MonsterSummonRequest(body))
    IN  /\ Idle
        /\ IF RequestErrors(body) # {}
           THEN /\ last' = SummonOutcome("legacy", request, body, NoGate, 422, <<>>, 0, <<>>)
                /\ UNCHANGED <<catalogVars, legacyVars, configVars, ssmParameter>>
           ELSE IF legacy_load_raises(_MONSTERS, dataFile)
           THEN /\ legacyReads < MaxReads
                /\ legacyReads' = legacyReads + 1
                /\ last' = SummonOutcome("legacy", request, body, NoGate, 500, <<>>, 1, <<>>)
                /\ UNCHANGED <<_MONSTERS, catalogVars, configVars, ssmParameter>>
           ELSE /\ _MONSTERS # <<>> \/ legacyReads < MaxReads
                /\ _MONSTERS' = monsters
                /\ legacyReads' = IF _MONSTERS = <<>> THEN legacyReads + 1 ELSE legacyReads
                /\ last' = SummonOutcome("legacy", request, body, NoGate,
                                         IF found.status = "ok" THEN 200 ELSE 500,
                                         monsters, 1, found.results)
                /\ UNCHANGED <<catalogVars, configVars, ssmParameter>>

\* routers/documentation.py: /openapi.json, /docs, /redoc behind the gate.
documentation_endpoint(request) ==
    LET gate == verify_client_id_address(request)
    IN  /\ Idle
        /\ last' = [op |-> "docs", impl |-> "helpers", request |-> request,
                    source_ip |-> ResolveSourceIp(request), allowlist |-> ALLOWED_IPS,
                    gate |-> gate, status_code |-> gate.status_code]
        /\ UNCHANGED <<catalogVars, legacyVars, configVars, ssmParameter>>

\* handler.py: the documentation routes behind verify_ip_for_docs.
legacy_documentation_endpoint(request) ==
    LET gate == verify_ip_for_docs(request)
    IN  /\ Idle
        /\ last' = [op |-> "docs", impl |-> "legacy", request |-> request,
                    source_ip |-> LegacyResolveSourceIp(request),
                    allowlist |-> ALLOWED_DOCS_IPS,
                    gate |-> gate, status_code |-> gate.status_code]
        /\ UNCHANGED <<catalogVars, legacyVars, configVars, ssmParameter>>

authorizer_invocation_Stale(event, fault) ==
    /\ Idle
    /\ last' = [op |-> "authorizer", event |-> event, fault |-> fault,
                name |-> HOME_IP_SSM_PARAMETER_NAME, parameter |-> ssmParameter,
                result |-> lambda_handler(event, fault, HOME_IP_SSM_PARAMETER_NAME, <<"a">>)]
    /\ UNCHANGED <<catalogVars, legacyVars, configVars, ssmParameter>>

\* One invocation of the authorizer Lambda.
authorizer_invocation(event, fault) ==
    /\ Idle
    /\ last' = [op |-> "authorizer", event |-> event, fault |-> fault,
                name |-> HOME_IP_SSM_PARAMETER_NAME, parameter |-> ssmParameter,
                result |-> lambda_handler(event, fault, HOME_IP_SSM_PARAMETER_NAME,
                                          ssmParameter)]
    /\ UNCHANGED <<catalogVars, legacyVars, configVars, ssmParameter>>

\* _convert_cr_to_float applied to the rating of the first record of the data
\* file, as find_monsters applies it: the value returned or the exception.
convert_cr_to_float ==
    /\ Idle
    /\ last' = [op |-> "convert", impl |-> "helpers", cr |-> dataFile.data[1].cr,
                result |-> _convert_cr_to_float(dataFile.data[1].cr)]
    /\ UNCHANGED <<catalogVars, legacyVars, configVars, ssmParameter>>

legacy_convert_cr ==
    /\ Idle
    /\ last' = [op |-> "convert", impl |-> "legacy", cr |-> dataFile.data[1].cr,
                result |-> legacy_convert_cr_to_float(dataFile.data[1].cr)]
    /\ UNCHANGED <<catalogVars, legacyVars, configVars, ssmParameter>>

\* The operator of the deployment stores another value in the parameter store.
PutParameter(value) ==
    /\ Idle
    /\ ssmParameter' = value
    /\ ssmParameter # value
    /\ UNCHANGED <<catalogVars, legacyVars, configVars, last>>

\* ------------------------------------------------------------------ inputs

Text(str) == [k |-> "str", s |-> str]

DigitChar(i) == CHOOSE c \in Digits : DigitVal(c) = i

\* The i-th record of a data file is named "m<i>".
NameOf(i) == <<"m", DigitChar(i)>>

\* The rating and the environment list of a catalog record: the ratings are
\* numbers, fractions as text, and text that float() reads as NaN, cannot
\* read, or reads as a zero denominator.
RecordTemplates ==
    { [cr |-> Num(1, 4), environment |-> << <<"f", "o">> >>],
      [cr |-> Num(1, 1), environment |-> << <<"F", "o">> >>],
      [cr |-> Num(5, 1), environment |-> << <<"c">> >>],
      [cr |-> Text(<<"1", "/", "2">>), environment |-> << <<"c">>, <<"f", "o">> >>],
      [cr |-> Text(<<"n", "a", "n">>), environment |-> << <<"f", "o">> >>],
      [cr |-> Text(<<"x">>), environment |-> <<>>],
      [cr |-> Text(<<"1", "/", "0">>), environment |-> << <<"f", "o">> >>] }

RawRecord(i, template) ==
    [name |-> NameOf(i), cr |-> template.cr, environment |-> template.environment,
     source |-> <<"M", "M">>]

\* The data files of well-formed records, up to MaxCatalog records long.
Catalogs ==
    UNION { { [i \in 1..n |-> RawRecord(i, t[i])] : t \in [1..n -> RecordTemplates] }
            : n \in 0..MaxCatalog }

JsonFile(records) == [k |-> "json", data |-> records]

\* open() raises FileNotFoundError.
MissingFile == [k |-> "missing"]

\* json.load() raises JSONDecodeError.
InvalidJson == [k |-> "invalid"]

\* open() or the read raises another error (PermissionError, or
\* UnicodeDecodeError on bytes that are not UTF-8).
UnreadableFile == [k |-> "unreadable"]

\* Records of a data file, well-formed and not: the goblin and the wolf, a
\* record without name, one whose cr is null, one without source.
LoadTemplates ==
    { [name |-> <<"g">>, cr |-> Num(1, 4), environment |-> << <<"f", "o">> >>,
       source |-> <<"M", "M">>],
      [name |-> <<"w">>, cr |-> Num(1, 1), environment |-> << <<"F", "o">> >>,
       source |-> <<"M", "M">>],
      [cr |-> Num(1, 1), environment |-> << <<"f", "o">> >>, source |-> <<"M", "M">>],
      [name |-> <<"n">>, cr |-> Null, environment |-> << <<"f", "o">> >>,
       source |-> <<"M", "M">>],
      [name |-> <<"s">>, cr |-> Num(2, 1), environment |-> << <<"f", "o">> >>] }

\* The data files a process may find: none, one that cannot be read, one
\* that is no JSON, and lists of up to MaxCatalog records.
DataFiles ==
    {MissingFile, InvalidJson, UnreadableFile}
        \cup UNION { {JsonFile(c) : c \in [1..n -> LoadTemplates]} : n \in 0..MaxCatalog }

Forest == <<"f", "o", "r", "e", "s", "t">>

Mountain == <<"m", "o", "u", "n", "t", "a", "i", "n">>

Wolf ==
    [name |-> <<"W", "o", "l", "f">>, cr |-> Num(1, 1), environment |-> <<Forest>>,
     source |-> <<"M", "M">>]

\* A goblin of CR 0.25 and a wolf of CR 1.0 in the forest, a dragon of CR 5.0
\* in the mountains.
ExampleCatalog ==
    << [name |-> <<"G", "o", "b", "l", "i", "n">>, cr |-> Num(1, 4),
        environment |-> <<Forest>>, source |-> <<"M", "M">>],
       Wolf,
       [name |-> <<"D", "r", "a", "g", "o", "n">>, cr |-> Num(5, 1),
        environment |-> <<Mountain>>, source |-> <<"M", "M">>] >>

\* cr_min=1.0, cr_max=3.0, environment="forest", no limit.
ExampleQuery == [cr_min |-> Num(1, 1), cr_max |-> Num(3, 1), environment |-> Forest]

\* Rating texts: digits, the fraction bar, point, sign, blank, a letter.
CrChars == {"0", "1", "2", "/", ".", "-", " ", "x"}

CrTexts == UNION { [1..n -> CrChars] : n \in 0..MaxCrLen }

\* The ratings of the documented conversions.
CrExamples ==
    { <<"1", "/", "2">>, <<"3", "0">>, <<"b", "a", "d", "/", "f", "r", "a", "c">>,
      <<"n", "o", "t", "a", "n", "u", "m", "b", "e", "r">> }

\* What the cr of a JSON record may hold: a number, a text, null, a list.
CrValues ==
    {Num(5, 1), Num(1, 4), Num(0, 1), Null, [k |-> "list"]}
        \cup {Text(s) : s \in CrTexts \cup CrExamples}

\* Queries against them: no criteria, a lower bound, a filter, a limit of 1.
LoadBodies ==
    {<<>>, [cr_min |-> Num(1, 1)], [environment |-> <<"F">>], [limit |-> Num(1, 1)]}

\* A JSON body: each field may be left out.
Bodies(crMins, crMaxs, environments, limits) ==
    { [f \in keys |->
          CASE f = "cr_min" -> lo [] f = "cr_max" -> hi
            [] f = "environment" -> env [] f = "limit" -> lim] :
      keys \in SUBSET {"cr_min", "cr_max", "environment", "limit"},
      lo \in crMins, hi \in crMaxs, env \in environments, lim \in limits }

\* Queries: with and without each bound, an environment filter that is empty
\* or differs in case from the tags, limits below the catalog length, and
\* three bodies the validation rejects.
QueryBodies ==
    Bodies({Num(0, 1), Num(1, 1)}, {Num(1, 1), Num(3, 1)}, {<<>>, <<"F">>},
           {Num(1, 1), Num(2, 1)})
        \cup {[limit |-> Num(0, 1)], [limit |-> Num(51, 1)], [cr_min |-> Num(-1, 1)]}

\* Requests to validate: bounds and limits on both sides of each constraint,
\* JSON null, and a limit that is no integer.
ValidationBodies ==
    Bodies({Null, Num(-1, 1), Num(-1, 10), Num(0, 1), Num(1, 2)},
           {Num(-1, 1), Num(0, 1), Num(3, 1)},
           {<<"F">>},
           {Null, Num(-1, 1), Num(0, 1), Num(1, 1), Num(3, 2), Num(50, 1), Num(51, 1),
            Num(100, 1)})

\* Queries around it: bounds on and between the three ratings, the filter in
\* either case or for the mountains.
ExampleBodies ==
    Bodies({Num(0, 1), Num(1, 1), Num(2, 1)}, {Num(1, 4), Num(1, 1), Num(3, 1), Num(5, 1)},
           {Forest, <<"F">> \o Tail(Forest), Mountain}, {Num(1, 1), Num(2, 1)})

\* Queries with the bounds in either order: cr_min above, equal to and without
\* cr_max, cr_max down to 0.
BoundBodies ==
    Bodies({Num(1, 1), Num(2, 1)}, {Num(0, 1), Num(1, 1)}, {<<"F">>}, {Num(2, 1)})

Client(host) == [k |-> "addr", host |-> host]

Request(scope, client) == [scope |-> scope, client |-> client]

\* A request from the allowed address, outside Lambda.
TrustedRequest == Request(<<>>, Client(<<"a">>))

\* The ALLOWED_IPS strings: addresses "a" and "b", commas and blanks.
EnvChars == {"a", "b", ",", " "}

EnvStrings == UNION { [1..n -> EnvChars] : n \in 0..MaxEnvLen }

\* What requestContext.http.sourceIp holds when the key is there, and what
\* the parameter store holds (None: no such parameter).
Addresses == {None, <<>>, <<"a">>, <<"b">>}

\* Gateway events: each of requestContext, http and sourceIp may be missing,
\* http may be empty or hold other keys only.
Events ==
    {<<>>, [requestContext |-> <<>>], [requestContext |-> [http |-> <<>>]],
     [requestContext |-> [http |-> [method |-> <<"G">>]]]}
        \cup {[requestContext |-> [http |-> [sourceIp |-> ip]]] : ip \in Addresses}

\* ASGI requests: with or without the Lambda event in the scope, with or
\* without a peer address.
Requests ==
    {Request(scope, client) :
        scope \in {<<>>} \cup {[aws_event |-> e] : e \in Events},
        client \in {Null, Client(<<"a">>), Client(<<"b">>)}}

Faults == {"none", "client", "ClientError", "Exception", "no_value"}

\* HOME_IP_SSM_PARAMETER_NAME: unset, empty, or a name.
ParameterNames == {None, <<>>, <<"p">>}

\* The goblin and the wolf.
SmallCatalog ==
    << [name |-> <<"g">>, cr |-> Num(1, 4), environment |-> << <<"f", "o">> >>,
        source |-> <<"M", "M">>],
       [name |-> <<"w">>, cr |-> Num(1, 1), environment |-> << <<"f", "o">> >>,
        source |-> <<"M", "M">>] >>

\* ---------------------------------------------------------- specifications

InitState(file, allowedIps, docsIps, name, parameter) ==
    /\ dataFile = file
    /\ _MONSTERS_CACHE = <<>>
    /\ lru = [set |-> FALSE, value |-> <<>>]
    /\ fileReads = 0
    /\ _MONSTERS = legacy_load_monsters(<<>>, file)
    /\ legacyReads = 1
    /\ ALLOWED_IPS_STR = allowedIps
    /\ ALLOWED_IPS = ParseAllowedIps(allowedIps)
    /\ ALLOWED_DOCS_IPS_STR = docsIps
    /\ ALLOWED_DOCS_IPS = ParseAllowedIps(docsIps)
    /\ HOME_IP_SSM_PARAMETER_NAME = name
    /\ ssmParameter = parameter
    /\ last = [op |-> "none"]

\* The query engine: every data file of well-formed records, every valid query,
\* both implementations, for a caller the gate allows.
Init == \E c \in Catalogs : InitState(JsonFile(c), <<"a">>, <<"a">>, <<"p">>, <<"a">>)

Next ==
    \/ \E body \in QueryBodies :
          \/ summon_monster_endpoint(TrustedRequest, body)
          \/ legacy_summon_monster_endpoint(TrustedRequest, body)
    \/ Return

Spec == Init /\ [][Next]_vars

\* The rating bounds: every data file of well-formed records, queries whose
\* bounds cross.
NextBounds ==
    \/ \E body \in BoundBodies :
          \/ summon_monster_endpoint(TrustedRequest, body)
          \/ legacy_summon_monster_endpoint(TrustedRequest, body)
    \/ Return

SpecBounds == Init /\ [][NextBounds]_vars

\* Request validation: one catalog, bodies on both sides of every constraint.
InitValidate == InitState(JsonFile(SmallCatalog), <<"a">>, <<"a">>, <<"p">>, <<"a">>)

NextValidate ==
    \/ \E body \in ValidationBodies :
          \/ summon_monster_endpoint(TrustedRequest, body)
          \/ legacy_summon_monster_endpoint(TrustedRequest, body)
    \/ Return

SpecValidate == InitValidate /\ [][NextValidate]_vars

\* Loading: every data file, sound or not, queried again and again by both
\* implementations.
InitLoad == \E file \in DataFiles : InitState(file, <<"a">>, <<"a">>, <<"p">>, <<"a">>)

NextLoad ==
    \/ \E body \in LoadBodies :
          \/ summon_monster_endpoint(TrustedRequest, body)
          \/ legacy_summon_monster_endpoint(TrustedRequest, body)
    \/ Return

SpecLoad == InitLoad /\ [][NextLoad]_vars

\* The documented example: the catalog of goblin, wolf and dragon.
InitExample == InitState(JsonFile(ExampleCatalog), <<"a">>, <<"a">>, <<"p">>, <<"a">>)

NextExample ==
    \/ \E body \in ExampleBodies :
          \/ summon_monster_endpoint(TrustedRequest, body)
          \/ legacy_summon_monster_endpoint(TrustedRequest, body)
    \/ Return

SpecExample == InitExample /\ [][NextExample]_vars

\* Rating conversion: a data file of one record with any rating, converted
\* and queried by both implementations.
InitConvert ==
    \E cr \in CrValues :
        InitState(JsonFile(<< [name |-> <<"m", "1">>, cr |-> cr,
                               environment |-> << <<"f", "o">> >>,
                               source |-> <<"M", "M">>] >>),
                  <<"a">>, <<"a">>, <<"p">>, <<"a">>)

NextConvert ==
    \/ convert_cr_to_float
    \/ legacy_convert_cr
    \/ summon_monster_endpoint(TrustedRequest, <<>>)
    \/ legacy_summon_monster_endpoint(TrustedRequest, <<>>)
    \/ Return

SpecConvert == InitConvert /\ [][NextConvert]_vars

\* Access control: every ALLOWED_IPS string (the two allowlists never meet in
\* one decision, so one string configures both), every request and event
\* shape, every parameter name and value, every fault of the fetch. The
\* backend never reads the parameter name and the authorizer never reads the
\* allowlists, so the two deployments' settings vary one at a time.
InitAccess ==
    \E str \in EnvStrings, name \in ParameterNames :
        /\ str = <<"a">> \/ name = <<"p">>
        /\ InitState(JsonFile(SmallCatalog), str, str, name, <<"a">>)

NextAccess ==
    \/ \E request \in Requests :
          \/ summon_monster_endpoint(request, <<>>)
          \/ legacy_summon_monster_endpoint(request, <<>>)
          \/ documentation_endpoint(request)
          \/ legacy_documentation_endpoint(request)
    \/ \E event \in Events, fault \in Faults : authorizer_invocation(event, fault)
    \/ \E value \in Addresses : PutParameter(value)
    \/ Return

SpecAccess == InitAccess /\ [][NextAccess]_vars

\* ------------------------------------------------------------------ claims

\* A summon request that find_monsters answered.
Answered == last.op = "summon" /\ last.status_code = 200

\* The numeric rating of a returned monster.
RatingOf(monster) == _convert_cr_to_float(monster.cr)

HasTag(monster, environment) ==
    \E i \in 1..Len(monster.environment) :
        Contains(Lower(environment), Lower(monster.environment[i]))

\* C1: every monster find_monsters returns has a rating r with r >= cr_min when
\* cr_min is set and r <= cr_max when cr_max is set, and, when an environment
\* filter is set (a non-empty text), a tag that contains the filter text
\* case-insensitively.
C1_ResultsWithinQuery ==
    Answered =>
        \A i \in 1..Len(last.found) :
            LET r == RatingOf(last.found[i])
                q == last.params
            IN  /\ q.cr_min # Null => Ge(r, q.cr_min)
                /\ q.cr_max # Null => Le(r, q.cr_max)
                /\ ~Falsy(q.environment) => HasTag(last.found[i], q.environment)

\* The predicates of the scan, stated on a catalog entry: the rating is not
\* below cr_min, not above cr_max, and a non-empty filter matches a tag.
PassesQuery(monster, q) ==
    /\ q.cr_min = Null \/ ~Lt(RatingOf(monster), q.cr_min)
    /\ q.cr_max = Null \/ ~Gt(RatingOf(monster), q.cr_max)
    /\ Falsy(q.environment) \/ HasTag(monster, q.environment)

RECURSIVE Filtered(_, _)
Filtered(catalog, q) ==
    IF catalog = <<>> THEN <<>>
    ELSE IF PassesQuery(Head(catalog), q)
    THEN <<Head(catalog)>> \o Filtered(Tail(catalog), q)
    ELSE Filtered(Tail(catalog), q)

Take(seq, n) == SubSeq(seq, 1, IF n < Len(seq) THEN n ELSE Len(seq))

\* C2: the result of find_monsters is the first min(limit, m) entries, in
\* catalog order, of the catalog entries that pass the predicates.
C2_FirstLimitMatches ==
    (Answered /\ last.impl = "helpers") =>
        last.found = Take(Filtered(last.catalog, last.params), last.params.limit)

\* C2 witness: more entries pass than the limit admits, and the scan stopped
\* at the limit.
C2_Witness ==
    /\ Answered /\ last.impl = "helpers"
    /\ Len(Filtered(last.catalog, last.params)) > last.params.limit
    /\ Len(last.found) = last.params.limit
    /\ last.found # <<>>

\* C3: find_monsters returns at most limit monsters, and the limit it is
\* called with is between 1 and 50.
C3_AtMostLimit ==
    (last.op = "summon" /\ last.find_calls > 0) =>
        /\ last.params.limit >= 1 /\ last.params.limit <= 50
        /\ Len(last.found) <= last.params.limit

\* C3 witness: a catalog with more passing entries than the limit, cut at it.
C3_Witness ==
    /\ Answered
    /\ Len(last.catalog) > last.params.limit
    /\ Len(last.found) = last.params.limit

\* An invocation of the authorizer Lambda.
Authorizing == last.op = "authorizer"

\* A non-empty text.
NonEmptyText(v) == v # None /\ v # <<>>

\* The source address an authorizer event carries, None when any of
\* requestContext, http or sourceIp is missing.
SourceIpOf(event) ==
    IF /\ "requestContext" \in DOMAIN event
       /\ "http" \in DOMAIN event.requestContext
       /\ "sourceIp" \in DOMAIN event.requestContext.http
    THEN event.requestContext.http.sourceIp
    ELSE None

\* The value the fetch of an invocation yields: the stored parameter when the
\* name is configured and nothing fails, none otherwise.
FetchedValue ==
    IF last.fault = "none" /\ NonEmptyText(last.name) THEN last.parameter ELSE None

\* C4: the authorizer answers isAuthorized true exactly when the event's
\* sourceIp is non-empty, the value fetched from the parameter store is
\* non-empty, and the two are equal; in every other case it answers false.
C4_AuthorizedIffEqual ==
    Authorizing =>
        (last.result.isAuthorized <=>
            /\ NonEmptyText(SourceIpOf(last.event))
            /\ NonEmptyText(FetchedValue)
            /\ SourceIpOf(last.event) = FetchedValue)

\* An invocation authorized: the source address is the stored one.
C4_Witness ==
    /\ Authorizing
    /\ last.result.isAuthorized
    /\ last.event.requestContext.http.sourceIp = last.parameter

\* C5: when the event carries no source IP (requestContext, http or sourceIp
\* missing, or sourceIp empty) the authorizer denies and makes no fetch of the
\* allowed address: neither the helper nor get_parameter is called.
C5_NoSourceNoFetch ==
    Authorizing /\ ~NonEmptyText(SourceIpOf(last.event)) =>
        /\ ~last.result.isAuthorized
        /\ last.result.ssm_calls = 0
        /\ last.result.fetches = 0

\* An event without requestContext.http.sourceIp, denied while the store holds
\* an address and the fetch would have succeeded.
C5_Witness ==
    /\ Authorizing
    /\ last.event = [requestContext |-> <<>>]
    /\ last.fault = "none" /\ last.name = <<"p">> /\ last.parameter = <<"a">>
    /\ ~last.result.isAuthorized
    /\ last.result.ssm_calls = 0

\* A request the static gate decided: the documentation routes of both
\* implementations and the summon route of automated_taskmaster.
Gated == last.op = "docs" \/ (last.op = "summon" /\ last.impl = "helpers")

\* The allowlist and the resolved address of a gated request.
AllowlistOf == IF last.impl = "legacy" THEN ALLOWED_DOCS_IPS ELSE ALLOWED_IPS

ResolvedOf ==
    IF last.op = "docs" THEN last.source_ip
    ELSE IF last.impl = "legacy" THEN LegacyResolveSourceIp(last.request)
    ELSE ResolveSourceIp(last.request)

\* C6: the static gate allows a request exactly when the parsed allowlist is
\* non-empty and the resolved source address is one of its entries; every
\* other request is refused with status 403.
C6_StaticGate ==
    Gated =>
        /\ last.gate.allowed <=>
              /\ AllowlistOf # <<>>
              /\ \E i \in 1..Len(AllowlistOf) : AllowlistOf[i] = ResolvedOf
        /\ ~last.gate.allowed => last.status_code = 403

\* A request with a resolved address refused because the allowlist is empty.
C6_Witness ==
    /\ last.op = "docs" /\ last.impl = "helpers"
    /\ AllowlistOf = <<>>
    /\ ResolvedOf = <<"a">>
    /\ last.status_code = 403

\* C7: a request whose resolved source address is absent or empty is denied
\* by the static gate and by the authorizer, whatever the allowlist or the
\* parameter store holds; the parsed allowlists never hold an empty entry.
C7_EmptyAddressDenied ==
    /\ \A i \in 1..Len(ALLOWED_IPS) : ALLOWED_IPS[i] # <<>>
    /\ \A i \in 1..Len(ALLOWED_DOCS_IPS) : ALLOWED_DOCS_IPS[i] # <<>>
    /\ Gated /\ ~NonEmptyText(ResolvedOf) => ~last.gate.allowed
    /\ Authorizing /\ ~NonEmptyText(SourceIpOf(last.event)) => ~last.result.isAuthorized

\* An allowlist string with a stray comma, and a request with the empty
\* address refused under the non-empty allowlist parsed from it.
C7_Witness ==
    /\ last.op = "docs"
    /\ ALLOWED_IPS_STR = <<"a", ",", " ">>
    /\ ALLOWED_IPS = << <<"a">> >>
    /\ ResolvedOf = <<>>
    /\ ~last.gate.allowed

\* Whether the request carries the gateway field requestContext.http.sourceIp.
HasSourceIpField(request) ==
    /\ "aws_event" \in DOMAIN request.scope
    /\ "requestContext" \in DOMAIN request.scope.aws_event
    /\ "http" \in DOMAIN request.scope.aws_event.requestContext
    /\ "sourceIp" \in DOMAIN request.scope.aws_event.requestContext.http

\* C8: the address the static gate resolves is requestContext.http.sourceIp
\* when the request carries that field, and the peer address of the
\* connection otherwise (none when there is no peer either).
C8_ResolvedAddress ==
    last.op = "docs" =>
        last.source_ip =
            IF HasSourceIpField(last.request)
            THEN last.request.scope.aws_event.requestContext.http.sourceIp
            ELSE IF last.request.client # Null THEN last.request.client.host
            ELSE None

\* The decision of the gate of the implementation on the request of last.
GateApproves ==
    IF last.impl = "legacy" THEN verify_ip_for_docs(last.request).allowed
    ELSE verify_client_id_address(last.request).allowed

\* C9: a summon request passes the access gate before find_monsters runs: a
\* request the gate denies ends in a rejection without a call of
\* find_monsters, and find_monsters runs only for approved requests.
C9_GateBeforeFind ==
    last.op = "summon" =>
        /\ last.find_calls > 0 => GateApproves
        /\ ~GateApproves => last.find_calls = 0 /\ last.status_code = 403

\* The constraints of the request model, read off a JSON body.
BoundAccepted(body, f) ==
    f \in DOMAIN body /\ body[f] # Null => body[f].k = "num" /\ body[f].n >= 0

LimitAccepted(body) ==
    "limit" \in DOMAIN body =>
        body.limit.k = "num" /\ body.limit.d = 1 /\ body.limit.n \in 1..50

\* C10: a summon request validates exactly when cr_min and cr_max are each
\* absent or at least 0 and limit is an integer in [1, 50]; a limit left out
\* is 10; a request that does not validate is rejected before find_monsters.
C10_RequestValidation ==
    last.op = "summon" /\ last.gate.allowed =>
        LET accepted == /\ BoundAccepted(last.body, "cr_min")
                        /\ BoundAccepted(last.body, "cr_max")
                        /\ LimitAccepted(last.body)
        IN  /\ accepted <=> last.status_code # 422
            /\ ~accepted => last.find_calls = 0
            /\ accepted /\ "limit" \notin DOMAIN last.body => last.params.limit = 10

\* A request with limit 51 and admissible bounds, rejected.
C10_Witness ==
    /\ last.op = "summon" /\ last.impl = "helpers"
    /\ last.body = [cr_min |-> Num(0, 1), limit |-> Num(51, 1)]
    /\ last.status_code = 422
    /\ last.find_calls = 0

\* The value the response echoes for a field of the request body: the value
\* sent, or the default of the request model (limit as the integer it is).
Echoed(body, f) ==
    IF f = "limit" THEN (IF f \in DOMAIN body THEN body[f].n ELSE 10)
    ELSE IF f \in DOMAIN body THEN body[f]
    ELSE IF f = "environment" THEN None
    ELSE Null

\* C11: the response of the summon endpoint echoes the query parameters of
\* the request unchanged, carries exactly the sequence find_monsters returned,
\* and its count is the length of that sequence, hence at most the limit.
C11_ResponseEchoesQuery ==
    Answered =>
        /\ \A f \in {"cr_min", "cr_max", "environment", "limit"} :
              last.response.query_parameters[f] = Echoed(last.body, f)
        /\ last.response.summoned_monsters = last.found
        /\ last.response.count = Len(last.found)
        /\ last.response.count <= Echoed(last.body, "limit")

\* A response with fewer monsters than the limit, to a request that set both
\* bounds and a filter.
C11_Witness ==
    /\ Answered /\ last.impl = "helpers"
    /\ DOMAIN last.body = {"cr_min", "cr_max", "environment", "limit"}
    /\ last.found # <<>>
    /\ last.response.count < last.response.query_parameters.limit

\* C12: when the data file is missing, is no valid JSON or fails to load for
\* any other reason, loading degrades to an empty catalog instead of raising:
\* the list loaded is empty and find_monsters returns an empty result, never
\* an error.
C12_LoadDegradesToEmpty ==
    (last.op = "summon" /\ last.find_calls > 0 /\ dataFile.k # "json") =>
        /\ last.status_code = 200
        /\ last.catalog = <<>>
        /\ last.found = <<>>

\* C13: the first load attempt, successful or not, is cached for the life of
\* the process: the data file is read at most once, by either implementation,
\* over any sequence of calls, and a later call works on the cached outcome.
C13_SourceReadOnce ==
    /\ fileReads <= 1
    /\ legacyReads <= 1
    /\ (last.op = "summon" /\ last.impl = "helpers" /\ last.find_calls > 0) =>
            lru.set /\ last.catalog = lru.value

\* The well-formed records of a data file, as Monster models, in file order.
RECURSIVE WellFormed(_)
WellFormed(records) ==
    IF records = <<>> THEN <<>>
    ELSE IF IsMonsterShape(Head(records))
    THEN <<Monster(Head(records))>> \o WellFormed(Tail(records))
    ELSE WellFormed(Tail(records))

\* C19: a data file in which some record fails the Monster shape loses only
\* that record: find_monsters returns the matches among the well-formed
\* records, as if the malformed ones were not in the file.
C19_MalformedRecordSkipped ==
    (Answered /\ dataFile.k = "json") =>
        last.found = Take(Filtered(WellFormed(dataFile.data), last.params), last.params.limit)

\* C14: every invocation with a source IP fetches the allowed IP afresh, and
\* nothing is kept between invocations: whatever was stored and read before,
\* the decision follows from the source IP of this invocation and the value
\* the parameter store holds now.
C14_FreshFetch ==
    (Authorizing /\ NonEmptyText(SourceIpOf(last.event))) =>
        /\ last.result.ssm_calls = 1
        /\ (last.fault = "none" /\ NonEmptyText(last.name)) =>
              /\ last.result.fetches = 1
              /\ last.result.isAuthorized <=>
                    (NonEmptyText(ssmParameter) /\ SourceIpOf(last.event) = ssmParameter)

\* An invocation authorized for the address stored after the deployment, in
\* place of the one the store held at first.
C14_Witness ==
    /\ Authorizing
    /\ ssmParameter = <<"b">>
    /\ last.result.isAuthorized
    /\ last.result.fetches = 1

\* A rating conversion.
Converting == last.op = "convert"

\* A non-empty run of decimal digits.
Numeral(s) == s # <<>> /\ \A i \in 1..Len(s) : s[i] \in Digits

\* C15: _convert_cr_to_float maps a number to itself as a float, a text "a/b"
\* of two numerals to a divided by b ("1/2" to 0.5), a numeral to its value
\* ("30" to 30.0), and a malformed fraction ("bad/frac"), an unparsable text
\* ("notanumber") or a value that is neither number nor text to -1.
C15_ConversionExamples ==
    Converting =>
        LET cr == last.cr
            r == last.result
        IN  /\ cr.k = "num" => r = cr
            /\ cr.k \notin {"num", "nan", "str"} => r = Num(-1, 1)
            /\ cr.k = "str" =>
                /\ cr.s = <<"1", "/", "2">> => r = Num(1, 2)
                /\ cr.s = <<"3", "0">> => r = Num(30, 1)
                /\ cr.s = <<"b", "a", "d", "/", "f", "r", "a", "c">> => r = Num(-1, 1)
                /\ cr.s = <<"n", "o", "t", "a", "n", "u", "m", "b", "e", "r">> => r = Num(-1, 1)
                /\ Numeral(cr.s) => r = Num(DecVal(cr.s), 1)
                /\ \A i \in 1..Len(cr.s) :
                      LET a == SubSeq(cr.s, 1, i - 1)
                          b == SubSeq(cr.s, i + 1, Len(cr.s))
                      IN  (cr.s[i] = "/" /\ Numeral(a) /\ Numeral(b) /\ DecVal(b) # 0) =>
                              r = Num(DecVal(a), DecVal(b))
                /\ (\A i \in 1..Len(cr.s) : cr.s[i] \in CrChars \ Digits) => r = Num(-1, 1)

\* The fraction "1/2" converted to 0.5.
C15_Witness ==
    /\ Converting /\ last.impl = "helpers"
    /\ last.cr = Text(<<"1", "/", "2">>)
    /\ last.result = Num(1, 2)

\* C18: _convert_cr_to_float is total: whatever the rating (a number, any
\* text, with or without "/", or another type) it returns a float, the
\* rating or -1, and never raises; find_monsters never fails on a rating.
C18_ConversionTotal ==
    /\ Converting => last.result.k \in {"num", "nan"}
    /\ (last.op = "summon" /\ last.find_calls > 0) => last.status_code = 200

\* The denial of a request without a source address under the allowlist
\* ["a"]: the rejection every other denial is compared with.
ReferenceDenial == CheckAllowed(None, << <<"a">> >>)

\* C16: a denial by the static gate is a 403 with a generic message: status
\* and message are the same for every cause (allowlist empty, source address
\* absent, source address not in the allowlist), so a denial looks to the
\* caller like the denial of any other cause.
C16_GenericDenial ==
    (Gated /\ ~last.gate.allowed) =>
        /\ last.gate.status_code = ReferenceDenial.status_code
        /\ last.gate.detail = ReferenceDenial.detail

\* C17: against the catalog of a CR-0.25 forest goblin, a CR-1.0 forest wolf
\* and a CR-5.0 mountain dragon, in this order, the query cr_min=1.0,
\* cr_max=3.0, environment="forest" with the default limit returns exactly
\* the wolf, with count 1; so does the query with both bounds 1.0.
C17_WolfExample ==
    (last.op = "summon" /\ dataFile = JsonFile(ExampleCatalog)) =>
        /\ last.body = ExampleQuery =>
              /\ last.status_code = 200
              /\ last.response.query_parameters.limit = 10
              /\ last.response.summoned_monsters = <<Wolf>>
              /\ last.response.count = 1
        /\ last.body = [cr_min |-> Num(1, 1), cr_max |-> Num(1, 1), environment |-> Forest] =>
              /\ last.status_code = 200
              /\ last.response.summoned_monsters = <<Wolf>>
              /\ last.response.count = 1

\* The example query answered with the wolf.
C17_Witness ==
    /\ last.op = "summon" /\ last.impl = "helpers"
    /\ last.catalog = ExampleCatalog
    /\ last.body = ExampleQuery
    /\ last.response.summoned_monsters = <<Wolf>>

\* A catalog entry whose rating fails to convert: the text "x", or any entry
\* rated -1.
SentinelRated(monster) == monster.cr = Text(<<"x">>) \/ RatingOf(monster) = Num(-1, 1)

\* C20: a catalog entry whose rating converts to the sentinel -1 is in no
\* result of a query that sets cr_min (0 included), and is in the result of
\* a query without rating bounds when the environment filter admits it and
\* the limit is not reached before it.
C20_SentinelExcluded ==
    Answered =>
        \A i \in 1..Len(last.catalog) :
            SentinelRated(last.catalog[i]) =>
                /\ last.params.cr_min # Null =>
                      \A j \in 1..Len(last.found) : last.found[j] # Monster(last.catalog[i])
                /\ (/\ last.params.cr_min = Null /\ last.params.cr_max = Null
                    /\ Falsy(last.params.environment)
                          \/ HasTag(last.catalog[i], last.params.environment)) =>
                      \/ \E j \in 1..Len(last.found) : last.found[j] = Monster(last.catalog[i])
                      \/ Len(last.found) = last.params.limit

\* A query with cr_min = 0 and no filter that leaves out the entry rated "x"
\* and returns the entry after it.
C20_Witness ==
    /\ Answered /\ last.impl = "helpers"
    /\ last.params.cr_min = Num(0, 1) /\ Falsy(last.params.environment)
    /\ Len(last.catalog) = 2
    /\ last.catalog[1].cr = Text(<<"x">>)
    /\ last.found = <<Monster(last.catalog[2])>>

\* C21: in find_monsters a record that passes the filters but fails the
\* Monster shape is skipped: it is not in the result, it does not count
\* toward the limit, and the scan goes on, so the result is the first limit
\* valid matching records of the list scanned, those after it included.
C21_InvalidRecordNotCounted ==
    Answered =>
        last.found = Take(Filtered(WellFormed(last.catalog), last.params), last.params.limit)

\* A query with limit 1 over a record without name followed by the wolf: the
\* wolf is returned.
C21_Witness ==
    /\ Answered /\ last.impl = "legacy"
    /\ last.params.limit = 1
    /\ Len(last.catalog) = 2
    /\ "name" \notin DOMAIN last.catalog[1]
    /\ IsMonsterShape(last.catalog[2])
    /\ last.found = <<Monster(last.catalog[2])>>

\* A request whose body sets cr_min above cr_max.
BoundsCrossed ==
    /\ last.op = "summon"
    /\ {"cr_min", "cr_max"} \subseteq DOMAIN last.body
    /\ last.body.cr_min.n * last.body.cr_max.d > last.body.cr_max.n * last.body.cr_min.d

\* C22: a query with cr_min > cr_max passes validation, and find_monsters
\* answers it with an empty result, count 0, on every catalog.
C22_CrossedBoundsEmpty ==
    BoundsCrossed =>
        /\ last.status_code # 422
        /\ last.status_code = 200 =>
              last.found = <<>> /\ last.response.count = 0

\* C28: a query that sets cr_max and no cr_min includes the catalog entries
\* whose rating converts to the sentinel -1, for every cr_max >= 0, when the
\* environment filter admits them and the limit is not reached before them.
C28_SentinelPassesUpperBound ==
    (Answered /\ last.params.cr_min = Null /\ last.params.cr_max # Null) =>
        \A i \in 1..Len(last.catalog) :
            (/\ SentinelRated(last.catalog[i])
             /\ Falsy(last.params.environment)
                   \/ HasTag(last.catalog[i], last.params.environment)) =>
                \/ \E j \in 1..Len(last.found) : last.found[j] = Monster(last.catalog[i])
                \/ Len(last.found) = last.params.limit

\* A query with cr_max = 0 alone that returns the entry rated "x".
C28_Witness ==
    /\ Answered /\ last.impl = "helpers"
    /\ DOMAIN last.body = {"cr_max"}
    /\ last.params.cr_max = Num(0, 1)
    /\ Len(last.catalog) = 1
    /\ last.catalog[1].cr = Text(<<"x">>)
    /\ last.found = last.catalog

\* C23: the catalog is never mutated after it is loaded: no step changes a
\* loaded catalog (length, order, entries), and a query is answered from
\* the records as they were read, so the same query gives the same result
\* however often and among whatever other queries it is repeated.
C23_CatalogNeverMutated ==
    /\ [][ /\ lru.set => UNCHANGED <<lru, _MONSTERS_CACHE>>
           /\ _MONSTERS # <<>> => UNCHANGED _MONSTERS ]_vars
    /\ [](Answered =>
            last.found = Take(Filtered(WellFormed(dataFile.data), last.params),
                              last.params.limit))

\* A query answered with a part of the catalog while both loaded catalogs
\* still hold every record of the file, in file order.
C23_Witness ==
    /\ Answered
    /\ last.found # <<>> /\ Len(last.found) < Len(dataFile.data)
    /\ lru.set /\ _MONSTERS_CACHE = WellFormed(dataFile.data)
    /\ _MONSTERS = dataFile.data

\* C24: whatever the order of the requests of one process, the shared catalog
\* variable is written exactly once, at its initialization, and only read
\* afterwards: no load assigns it again after a request has read it, and a
\* request works on the whole catalog as initialized.
C24_CatalogWrittenOnce ==
    /\ CacheWrites <= 1
    /\ LegacyWrites <= 1
    /\ (last.op = "summon" /\ last.impl = "helpers" /\ last.find_calls > 0) =>
            last.catalog = _MONSTERS_CACHE

\* An invocation that called get_allowed_ip_from_ssm().
Fetching == Authorizing /\ last.result.ssm_calls > 0

\* C25: get_allowed_ip_from_ssm returns the stored value when the fetch
\* succeeds with a non-empty value and None, without raising, in every
\* failure (no client, no parameter name, ClientError or another exception of
\* the fetch, no value or an empty value in the response); without client or
\* name it issues no fetch.
C25_FetchFailuresGiveNone ==
    Fetching =>
        /\ last.result.allowed_ip =
              IF last.fault = "none" /\ NonEmptyText(last.name) /\ NonEmptyText(last.parameter)
              THEN last.parameter
              ELSE None
        /\ (last.fault = "client" \/ ~NonEmptyText(last.name)) => last.result.fetches = 0

\* A fetch that raised an exception other than ClientError and gave None.
C25_Witness ==
    /\ Fetching
    /\ last.fault = "Exception" /\ last.name = <<"p">>
    /\ last.result.allowed_ip = None
    /\ last.result.fetches = 1

\* Whether the fetch of the invocation failed.
FetchFailed ==
    \/ last.fault \in {"ClientError", "Exception", "no_value"}
    \/ ~NonEmptyText(last.parameter)

\* C26: an invocation attempts the fetch of the parameter at most once and
\* never retries it: a failed fetch is followed by the denial, with no second
\* fetch before the decision.
C26_NoRetry ==
    Authorizing =>
        /\ last.result.ssm_calls <= 1
        /\ last.result.fetches <= 1
        /\ (Fetching /\ FetchFailed) => ~last.result.isAuthorized

\* A fetch that failed once while the store held the caller's address: the
\* invocation is denied after that one fetch.
C26_Witness ==
    /\ Fetching
    /\ last.fault = "ClientError" /\ last.name = <<"p">>
    /\ last.parameter = <<"a">> /\ last.result.source_ip = <<"a">>
    /\ last.result.fetches = 1
    /\ ~last.result.isAuthorized

\* What the implementation that answered returns for another query on the
\* list it scanned.
AnswerTo(params) ==
    IF last.impl = "legacy" THEN legacy_find_monsters(last.catalog, params).results
    ELSE find_monsters(last.catalog, params).results

\* C27: a query whose environment is the empty string is answered like the
\* query without environment: the same result, entries with an empty
\* environment list included; a non-empty filter leaves out every entry
\* whose environment list is empty.
C27_EmptyEnvironmentNoFilter ==
    Answered =>
        /\ last.params.environment = <<>> =>
              last.found = AnswerTo([last.params EXCEPT !.environment = None])
        /\ NonEmptyText(last.params.environment) =>
              \A j \in 1..Len(last.found) : last.found[j].environment # <<>>

\* A query with environment "" that returns an entry without environments.
C27_Witness ==
    /\ Answered /\ last.impl = "helpers"
    /\ "environment" \in DOMAIN last.body /\ last.body.environment = <<>>
    /\ \E j \in 1..Len(last.found) : last.found[j].environment = <<>>

\* The outcome of the other implementation for the query of last on the same
\* data file.
OtherImplementation ==
    IF last.impl = "helpers"
    THEN legacy_find_monsters(legacy_load_monsters(<<>>, dataFile), last.params)
    ELSE find_monsters(LoadedMonsters(dataFile), last.params)

\* C29: on a data file whose records all satisfy the Monster shape and for
\* every valid query, find_monsters of monster_summoner.py (raw records) and
\* find_monsters of helpers/monster_summoner.py (validated models) return the
\* same sequence of monsters, and one raises exactly when the other does.
C29_ImplementationsAgree ==
    (last.op = "summon" /\ last.find_calls > 0) =>
        /\ last.found = OtherImplementation.results
        /\ last.status_code = 200 <=> OtherImplementation.status = "ok"

\* A query the first implementation answered with an entry rated "1/2".
C29_Witness ==
    /\ Answered /\ last.impl = "legacy"
    /\ \E j \in 1..Len(last.found) : last.found[j].cr = Text(<<"1", "/", "2">>)
    /\ last.found = OtherImplementation.results

====
